---------------------------- MODULE Spec2Model ----------------------------
(***************************************************************************)
(* QueryTube: the vector index of backend/app/services/vector_search.py,   *)
(* the files it shares with backend/scripts/embed_and_index.py, the search *)
(* that reads the loaded snapshot, and the collect and transcript stages   *)
(* of backend/app/services/youtube_service.py, scripts/collect_youtube.py  *)
(* and scripts/get_transcripts.py.                                         *)
(*                                                                         *)
(* The API handlers are `async def` functions that call the service        *)
(* synchronously (no await inside), so inside one server process each      *)
(* service call runs to its return or its exception before the next one    *)
(* starts: load_index, build_index and search are one action each, with    *)
(* the exception they end in as part of the outcome.  The embedding        *)
(* script is another OS process; it meets the server only through the      *)
(* files, so each of its file writes is a step of its own.                 *)
(*                                                                         *)
(* Specifications: Spec is the server with the transcript stage rewriting  *)
(* its input between rebuilds; SpecBuild is the rebuild and the reload     *)
(* over one transcript table, with every failure; SpecSearch is the script *)
(* writing the files, the server loading them, and search with all its     *)
(* arguments; SpecQuery is the server started on a finished script run;    *)
(* SpecCollect is the collect stage (API and script) against one playlist; *)
(* SpecTranscripts is the transcript stage (API and script) over a         *)
(* collected videos file; SpecOverlap is two transcript runs of two        *)
(* processes, each in a read step and a write step; SpecPagingFair is the  *)
(* paging loop of a collect taken one request at a time.                   *)
(*                                                                         *)
(* Numbers.  float32 unit vectors are kept in fixed point: a normalised    *)
(* vector has integer coordinates of norm Unit, and an inner product of    *)
(* two of them is the cosine times Unit*Unit.                              *)
(***************************************************************************)
EXTENDS Integers, Sequences, FiniteSets, TLC

\* ---------------------------------------------------------------- bounds
MaxRows == 2
MaxBuilds == 2
MaxTopK == 2
MaxItems == 2      \* items of the upstream playlist
MaxResults == 2    \* largest max_results a collect is called with
PageLimit == 1     \* stands for the API's page limit of 50 items

\* ------------------------------------------------------------ input sets
Models == {"mA", "mB"}
DefaultModel == "mA"
NoTranscript == "None"
Queries == {"qx", "ta"}
Metrics == {"cosine", "euclidean", "dot_product"}
ScriptMetrics == {"cosine", "euclidean"}
MinScores == {{}, {0}, {20}, {25}}
Faults == {"none", "encode", "index_write", "meta_write"}

\* --------------------------------------------------------- vector algebra
Unit == 5

\* SentenceTransformer.encode: deterministic per model; two models give
\* different vectors for the same text.
Encode(model, text) ==
    IF model = "mA"
    THEN CASE text = "ta" -> <<6, 8>>
           [] text = "tb" -> <<-5, 0>>
           [] text = "qx" -> <<4, 3>>
           [] OTHER       -> <<0, 10>>
    ELSE CASE text = "ta" -> <<0, 5>>
           [] text = "tb" -> <<10, 0>>
           [] text = "qx" -> <<3, 4>>
           [] OTHER       -> <<-3, -4>>

RECURSIVE SumSeq(_)
SumSeq(s) == IF s = <<>> THEN 0 ELSE Head(s) + SumSeq(Tail(s))

Dot(a, b) == SumSeq([i \in 1..Len(a) |-> a[i] * b[i]])

SqDist(a, b) == SumSeq([i \in 1..Len(a) |-> (a[i] - b[i]) * (a[i] - b[i])])

\* integer square root (the encoded vectors have integer norms)
ISqrt(x) == CHOOSE n \in 0..(x + 1) : n * n <= x /\ (n + 1) * (n + 1) > x

Norm(v) == ISqrt(Dot(v, v))

\* faiss.normalize_L2 (a zero vector is left as it is)
Scaled(v, n) == IF n = 0 THEN v ELSE [i \in 1..Len(v) |-> (v[i] * Unit) \div n]

NormalizeL2(v) == Scaled(v, Norm(v))

\* ------------------------------------------------------------ data frames
\* rows of transcripts.parquet: a video and its transcript, which is null
\* (the fetch failed), empty, or a text.  Two rows for each video.
TranscriptRows ==
    {[video_id |-> "v1", transcript |-> NoTranscript], [video_id |-> "v1", transcript |-> "ta"],
     [video_id |-> "v2", transcript |-> ""], [video_id |-> "v2", transcript |-> "tb"]}

RECURSIVE SeqsUpTo(_, _)
SeqsUpTo(S, n) ==
    IF n = 0 THEN {<<>>}
    ELSE LET shorter == SeqsUpTo(S, n - 1)
         IN shorter \cup {Append(s, x) : s \in {t \in shorter : Len(t) = n - 1}, x \in S}

TranscriptTables == SeqsUpTo(TranscriptRows, MaxRows)

\* df[df["transcript"].notna() & (df["transcript"] != "")]: the kept rows, in
\* file order, each with the label (position in the file) pandas keeps for it
RECURSIVE FilterFrom(_, _)
FilterFrom(rows, i) ==
    IF i > Len(rows) THEN <<>>
    ELSE IF rows[i].transcript # NoTranscript /\ rows[i].transcript # ""
         THEN <<[label |-> i - 1, video_id |-> rows[i].video_id,
                 transcript |-> rows[i].transcript]>> \o FilterFrom(rows, i + 1)
         ELSE FilterFrom(rows, i + 1)

\* the filter with the bug of testing notna() only: empty transcripts stay
RECURSIVE FilterNotNullFrom(_, _)
FilterNotNullFrom(rows, i) ==
    IF i > Len(rows) THEN <<>>
    ELSE IF rows[i].transcript # NoTranscript
         THEN <<[label |-> i - 1, video_id |-> rows[i].video_id,
                 transcript |-> rows[i].transcript]>> \o FilterNotNullFrom(rows, i + 1)
         ELSE FilterNotNullFrom(rows, i + 1)

FilterNotNull(rows) == FilterNotNullFrom(rows, 1)

FilterTranscripts(rows) == FilterFrom(rows, 1)


\* ------------------------------------------------------------ faiss index
\* self.index = None
NoIndex == [kind |-> "none", d |-> 0, vecs |-> <<>>, model |-> "none", gen |-> 0]

\* faiss.IndexFlatIP(d) / IndexFlatL2(d) after index.add(embeddings): the
\* vectors in the order added.  model and gen are history: the model that
\* produced the vectors and the build that made the index.
FlatIndex(kind, vecs, model, gen) ==
    [kind |-> kind, d |-> Len(vecs[1]), vecs |-> vecs, model |-> model, gen |-> gen]

RECURSIVE Flatten(_)
Flatten(vecs) == IF vecs = <<>> THEN <<>> ELSE Head(vecs) \o Flatten(Tail(vecs))

AbsentFile == [st |-> "absent"]

\* faiss.write_index: header (metric, d, ntotal) and the raw vector codes
write_index(ix) ==
    [st |-> "ok", metric_type |-> ix.kind, d |-> ix.d, ntotal |-> Len(ix.vecs),
     codes |-> Flatten(ix.vecs), model |-> ix.model, gen |-> ix.gen]

\* read_index with the bug of cutting the vectors out of the codes last first
read_index_reversed(f) ==
    [kind |-> f.metric_type, d |-> f.d,
     vecs |-> [i \in 1..f.ntotal |->
                 SubSeq(f.codes, (f.ntotal - i) * f.d + 1, (f.ntotal - i + 1) * f.d)],
     model |-> f.model, gen |-> f.gen]

\* faiss.read_index: the vectors are cut back out of the codes, d at a time
read_index(f) ==
    [kind |-> f.metric_type, d |-> f.d,
     vecs |-> [i \in 1..f.ntotal |-> SubSeq(f.codes, (i - 1) * f.d + 1, i * f.d)],
     model |-> f.model, gen |-> f.gen]

\* ------------------------------------------------------------- metadata
\* self.metadata = None
NoMetadata == [loaded |-> FALSE, rows |-> <<>>, gen |-> 0]

\* df["embedding"] = list(embeddings): positional, row i gets embeddings[i]
WithEmbeddings(df, embeddings) ==
    [i \in 1..Len(df) |-> [label |-> df[i].label, video_id |-> df[i].video_id,
                           transcript |-> df[i].transcript, embedding |-> embeddings[i]]]

\* df.to_parquet(path, index=False): rows in frame order, labels dropped
to_parquet(df, gen) ==
    [st |-> "ok",
     rows |-> [i \in 1..Len(df) |-> [video_id |-> df[i].video_id,
                                     transcript |-> df[i].transcript,
                                     embedding |-> df[i].embedding]],
     gen |-> gen]

\* pd.read_parquet: rows in file order under a fresh RangeIndex
read_parquet(f) ==
    [loaded |-> TRUE,
     rows |-> [i \in 1..Len(f.rows) |-> [label |-> i - 1, video_id |-> f.rows[i].video_id,
                                         transcript |-> f.rows[i].transcript,
                                         embedding |-> f.rows[i].embedding]],
     gen |-> f.gen]

\* self.metadata.iloc[idx]: positional
iloc(md, idx) == md.rows[idx + 1]

\* --------------------------------------------------------------- search
\* distance faiss reports for stored vector i (0-based): inner product for
\* IndexFlatIP, squared L2 distance for IndexFlatL2
FaissDist(ix, q, i) ==
    IF ix.kind = "IP" THEN Dot(q, ix.vecs[i + 1]) ELSE SqDist(q, ix.vecs[i + 1])

\* faiss result order: best first (largest inner product, smallest L2
\* distance), equal distances by ascending id
FaissBefore(ix, q, i, j) ==
    LET di == FaissDist(ix, q, i)
        dj == FaissDist(ix, q, j)
    IN IF di = dj THEN i < j
       ELSE IF ix.kind = "IP" THEN di > dj ELSE di < dj

RECURSIVE FaissRank(_, _, _)
FaissRank(ix, q, S) ==
    IF S = {} THEN <<>>
    ELSE LET b == CHOOSE i \in S : \A j \in S \ {i} : FaissBefore(ix, q, i, j)
         IN <<[dist |-> FaissDist(ix, q, b), idx |-> b]>> \o FaissRank(ix, q, S \ {b})

\* index.search(query, top_k): exactly top_k (distance, id) pairs, the
\* places past ntotal filled with id -1
FaissSearch(ix, q, k) ==
    LET ranked == FaissRank(ix, q, 0..(Len(ix.vecs) - 1))
    IN [n \in 1..k |-> IF n <= Len(ranked) THEN ranked[n] ELSE [dist |-> 0, idx |-> -1]]

\* BuildResults with the bug of collecting the surviving hits back to front
\* once a min_score is given
RECURSIVE BuildResultsBackToFront(_, _, _)
BuildResultsBackToFront(hits, md, min_score) ==
    IF hits = <<>> THEN <<>>
    ELSE LET h == Head(hits)
             rest == BuildResultsBackToFront(Tail(hits), md, min_score)
             one == <<[ordinal |-> h.idx, score |-> h.dist,
                       video_id |-> iloc(md, h.idx).video_id]>>
         IN IF h.idx = -1 THEN rest
            ELSE IF min_score # {} /\ (\E m \in min_score : h.dist < m) THEN rest
            ELSE IF min_score # {} THEN rest \o one ELSE one \o rest

\* BuildResults with the bug of never applying min_score
RECURSIVE BuildResultsUnfiltered(_, _, _)
BuildResultsUnfiltered(hits, md, min_score) ==
    IF hits = <<>> THEN <<>>
    ELSE LET h == Head(hits)
             rest == BuildResultsUnfiltered(Tail(hits), md, min_score)
         IN IF h.idx = -1 THEN rest
            ELSE <<[ordinal |-> h.idx, score |-> h.dist,
                    video_id |-> iloc(md, h.idx).video_id]>> \o rest

\* the result loop of search: unfilled places and scores under min_score
\* are skipped, every other hit is resolved against the metadata by position
RECURSIVE BuildResults(_, _, _)
BuildResults(hits, md, min_score) ==
    IF hits = <<>> THEN <<>>
    ELSE LET h == Head(hits)
             rest == BuildResults(Tail(hits), md, min_score)
         IN IF h.idx = -1 THEN rest
            ELSE IF min_score # {} /\ (\E m \in min_score : h.dist < m) THEN rest
            ELSE <<[ordinal |-> h.idx, score |-> h.dist,
                    video_id |-> iloc(md, h.idx).video_id]>> \o rest

\* hits that pass the filter but have no metadata row: iloc raises IndexError
Unresolved(hits, md, min_score) ==
    {n \in 1..Len(hits) :
        /\ hits[n].idx # -1
        /\ ~(min_score # {} /\ (\E m \in min_score : hits[n].dist < m))
        /\ hits[n].idx >= Len(md.rows)}

\* VectorSearchService.search as a function of the service state.  The
\* metric argument is accepted and never read.
search(ix, md, model, query, top_k, metric, min_score) ==
    IF ix.kind = "none" \/ ~md.loaded
    THEN [outcome |-> "not_loaded", results |-> <<>>]
    ELSE LET q == NormalizeL2(Encode(model, query))
         IN IF Len(q) # ix.d
            THEN [outcome |-> "error", results |-> <<>>]
            ELSE LET hits == FaissSearch(ix, q, top_k)
                 IN IF Unresolved(hits, md, min_score) # {}
                    THEN [outcome |-> "error", results |-> <<>>]
                    ELSE [outcome |-> "ok", results |-> BuildResults(hits, md, min_score)]

\* ---------------------------------------------------------------- state
VARIABLES
    model_name,        \* self.model_name / self.model of the service
    index,             \* self.index
    metadata,          \* self.metadata
    indexFile,         \* the file at settings.index_path
    embeddingsFile,    \* the file at settings.embeddings_path
    transcriptsFile,   \* the file at settings.transcripts_path
    script,            \* the embed_and_index.py process: position and locals
    builds,            \* number of index builds started so far (history)
    videosFile,        \* the file at settings.videos_path
    playlist,          \* YouTube's side: the items of the playlist collect reads
    runs,              \* the transcript runs in progress, one per OS process
    pager,             \* the paging loop of a collect in progress
    last               \* the last operation, its arguments and outcome (history)

vars == <<model_name, index, metadata, indexFile, embeddingsFile, transcriptsFile,
          script, builds, videosFile, playlist, runs, pager, last>>

\* the OS processes that run ingestion: the server and one script process
Procs == {"server", "script"}

NoRun == [pc |-> "idle"]

NoPager == [pc |-> "idle"]

NoArgs == [query |-> "", top_k |-> 0, metric |-> "", min_score |-> {}]

\* what the last operation was, how it ended and what it returned; noop marks
\* a build_index call that took the "index already exists" branch
Done(op, outcome, noop, args, counts, results) ==
    [op |-> op, outcome |-> outcome, noop |-> noop, args |-> args, counts |-> counts,
     results |-> results]

ScriptIdle == [pc |-> "idle", index |-> NoIndex, df |-> <<>>]

\* VectorSearchService.__init__ on a fresh installation: no snapshot loaded,
\* no file written yet
Init ==
    /\ model_name = DefaultModel
    /\ index = NoIndex
    /\ metadata = NoMetadata
    /\ indexFile = AbsentFile
    /\ embeddingsFile = AbsentFile
    /\ transcriptsFile = AbsentFile
    /\ script = ScriptIdle
    /\ videosFile = AbsentFile
    /\ runs = [p \in Procs |-> NoRun]
    /\ pager = NoPager
    /\ playlist = <<>>
    /\ builds = 0
    /\ last = Done("init", "ok", FALSE, NoArgs, <<0, 0>>, <<>>)

\* ----------------------------------------------------------- load_index
\* The body of load_index on the service fields (ix, md) and the two files:
\* the fields it leaves behind and how it ended.  self.index is assigned as
\* soon as the index file is read, before the metadata file is looked at.
LoadResult(ix, md, ixFile, mdFile) ==
    IF ixFile.st = "absent"
    THEN [index |-> ix, metadata |-> md, outcome |-> "index_not_found"]
    ELSE IF mdFile.st = "absent"
    THEN [index |-> read_index(ixFile), metadata |-> md, outcome |-> "metadata_not_found"]
    ELSE [index |-> read_index(ixFile), metadata |-> read_parquet(mdFile), outcome |-> "ok"]

\* load_index(), called at startup and by POST /reload-index
load_index ==
    \E r \in {LoadResult(index, metadata, indexFile, embeddingsFile)} :
       /\ index' = r.index
       /\ metadata' = r.metadata
       /\ last' = Done("load_index", r.outcome, FALSE, NoArgs,
                       <<Len(r.metadata.rows), Len(r.index.vecs)>>, <<>>)
       /\ UNCHANGED <<videosFile, playlist, runs, pager, model_name, indexFile, embeddingsFile,
                      transcriptsFile, script, builds>>

\* ---------------------------------------------------------- build_index
\* EmbedRows with the bug of returning the embeddings in reverse input order
EmbedRowsReversed(model, df) ==
    [i \in 1..Len(df) |-> NormalizeL2(Encode(model, df[Len(df) + 1 - i].transcript))]

\* the embeddings of the kept rows, in row order, normalised in place
EmbedRows(model, df) == [i \in 1..Len(df) |-> NormalizeL2(Encode(model, df[i].transcript))]

\* build_index from "Create FAISS index" on: self.index is replaced, then the
\* index file is written, then the metadata file, then self.metadata is set.
\* fault "index_write" / "meta_write": faiss.write_index / to_parquet raises
\* (the file cannot be opened for writing) and the steps after it never run.
PersistResult(base, newIndex, rows, fault) ==
    IF fault = "index_write"
    THEN [base EXCEPT !.index = newIndex, !.built = TRUE, !.outcome = "write_error"]
    ELSE IF fault = "meta_write"
    THEN [base EXCEPT !.index = newIndex, !.built = TRUE, !.outcome = "write_error",
                      !.indexFile = write_index(newIndex)]
    ELSE [base EXCEPT !.index = newIndex, !.built = TRUE,
                      !.indexFile = write_index(newIndex),
                      !.embeddingsFile = to_parquet(rows, newIndex.gen),
                      !.metadata = [loaded |-> TRUE, rows |-> rows, gen |-> newIndex.gen],
                      !.counts = <<Len(rows), Len(newIndex.vecs)>>]

\* build_index from "Generate embeddings" on, for the kept rows df
EmbedResult(base, df, embeddings, fault) ==
    PersistResult(base, FlatIndex("IP", embeddings, base.model_name, builds + 1),
                  WithEmbeddings(df, embeddings), fault)

\* The rebuild branch of build_index (the index file is absent or
\* force_rebuild is set): the fields and files it leaves behind.  The model
\* override is applied first; fault "encode" is model.encode raising.
RebuildResult(model_arg, fault) ==
    LET base == [model_name |-> IF model_arg # "None" /\ model_arg # model_name
                                THEN model_arg ELSE model_name,
                 index |-> index, metadata |-> metadata,
                 indexFile |-> indexFile, embeddingsFile |-> embeddingsFile,
                 outcome |-> "ok", counts |-> <<0, 0>>, built |-> FALSE]
    IN IF transcriptsFile.st = "absent"
       THEN [base EXCEPT !.outcome = "transcripts_not_found"]
       ELSE IF Len(FilterTranscripts(transcriptsFile.rows)) = 0
       THEN [base EXCEPT !.outcome = "no_transcripts"]
       ELSE IF fault = "encode"
       THEN [base EXCEPT !.outcome = "encode_error"]
       ELSE EmbedResult(base, FilterTranscripts(transcriptsFile.rows),
                        EmbedRows(base.model_name, FilterTranscripts(transcriptsFile.rows)),
                        fault)

\* build_index(model_name, batch_size, force_rebuild).  batch_size only sets
\* how many texts one encode batch holds; encode keeps the input order.
build_index(model_arg, force_rebuild, fault) ==
    IF indexFile.st # "absent" /\ ~force_rebuild
    THEN \* os.path.exists(index_path): load what is on disk and return its counts
         \E r \in {LoadResult(index, metadata, indexFile, embeddingsFile)} :
            /\ index' = r.index
            /\ metadata' = r.metadata
            /\ last' = Done("build_index", r.outcome, TRUE, NoArgs,
                            IF r.outcome = "ok"
                            THEN <<Len(r.metadata.rows), Len(r.index.vecs)>>
                            ELSE <<0, 0>>, <<>>)
            /\ UNCHANGED <<videosFile, playlist, runs, pager, model_name, indexFile,
                           embeddingsFile, transcriptsFile, script, builds>>
    ELSE /\ builds < MaxBuilds
         /\ \E r \in {RebuildResult(model_arg, fault)} :
               /\ model_name' = r.model_name
               /\ index' = r.index
               /\ metadata' = r.metadata
               /\ indexFile' = r.indexFile
               /\ embeddingsFile' = r.embeddingsFile
               /\ builds' = IF r.built THEN builds + 1 ELSE builds
               /\ last' = Done("build_index", r.outcome, FALSE, NoArgs, r.counts, <<>>)
               /\ UNCHANGED <<videosFile, playlist, runs, pager, transcriptsFile, script>>

\* --------------------------------------------------------------- search
\* search(query, top_k, metric, min_score) on the loaded snapshot
Search(query, top_k, metric, min_score) ==
    \E r \in {search(index, metadata, model_name, query, top_k, metric, min_score)} :
       /\ last' = Done("search", r.outcome, FALSE,
                         [query |-> query, top_k |-> top_k, metric |-> metric,
                          min_score |-> min_score],
                         <<0, 0>>, r.results)
       /\ UNCHANGED <<videosFile, playlist, runs, pager, model_name, index, metadata, indexFile,
                      embeddingsFile, transcriptsFile, script, builds>>

\* ------------------------------------------------- the transcript stage
\* result_df.to_parquet(settings.transcripts_path): the transcript stage
\* replaces the transcripts file by a table of one row per processed video
save_transcripts(rows) ==
    /\ transcriptsFile' = [st |-> "ok", rows |-> rows]
    /\ last' = Done("save_transcripts", "ok", FALSE, NoArgs, <<0, 0>>, <<>>)
    /\ UNCHANGED <<videosFile, playlist, runs, pager, model_name, index, metadata, indexFile,
                   embeddingsFile, script, builds>>

\* ------------------------------------------------- embed_and_index.py
\* build_faiss_index: IndexFlatIP for cosine, IndexFlatL2 for euclidean
build_faiss_index(embeddings, metric, model, gen) ==
    FlatIndex(IF metric = "cosine" THEN "IP" ELSE "L2", embeddings, model, gen)

\* main() up to the first write: the exits (index exists without --force,
\* no transcripts file, no row with a transcript) leave everything alone;
\* otherwise the embeddings (normalize_embeddings=True) and the index are
\* built in the process's memory
ScriptMain(model, metric, force) ==
    /\ script.pc = "idle"
    /\ IF \/ (indexFile.st # "absent" /\ ~force)
          \/ transcriptsFile.st = "absent"
          \/ Len(FilterTranscripts(transcriptsFile.rows)) = 0
       THEN /\ last' = Done("script_main", "exit", FALSE, NoArgs, <<0, 0>>, <<>>)
            /\ UNCHANGED <<script, builds>>
       ELSE /\ builds < MaxBuilds
            /\ \E df \in {FilterTranscripts(transcriptsFile.rows)} :
                 \E embeddings \in {EmbedRows(model, df)} :
                    script' = [pc |-> "save_index",
                               index |-> build_faiss_index(embeddings, metric, model,
                                                           builds + 1),
                               df |-> WithEmbeddings(df, embeddings)]
            /\ builds' = builds + 1
            /\ last' = Done("script_main", "ok", FALSE, NoArgs, <<0, 0>>, <<>>)
    /\ UNCHANGED <<videosFile, playlist, runs, pager, model_name, index, metadata, indexFile,
                   embeddingsFile, transcriptsFile>>

\* save_index(index, output_index)
ScriptSaveIndex ==
    /\ script.pc = "save_index"
    /\ indexFile' = write_index(script.index)
    /\ script' = [script EXCEPT !.pc = "save_embeddings"]
    /\ last' = Done("script_save_index", "ok", FALSE, NoArgs, <<0, 0>>, <<>>)
    /\ UNCHANGED <<videosFile, playlist, runs, pager, model_name, index, metadata, embeddingsFile,
                   transcriptsFile, builds>>

\* save_embeddings(df, embeddings, output_embeddings), then the process ends
ScriptSaveEmbeddings ==
    /\ script.pc = "save_embeddings"
    /\ embeddingsFile' = to_parquet(script.df, script.index.gen)
    /\ script' = ScriptIdle
    /\ last' = Done("script_save_embeddings", "ok", FALSE, NoArgs, <<0, 0>>, <<>>)
    /\ UNCHANGED <<videosFile, playlist, runs, pager, model_name, index, metadata, indexFile,
                   transcriptsFile, builds>>

\* -------------------------------------------------------------- collect
\* Dates are instants 1 < 2 < 3, written in the one format the API uses, so
\* that the order of the strings the code compares is the order of time.

\* snippet.publishedAt of the video resource (videos().list)
VideoPublishedAt(v) ==
    CASE v = "v1" -> 1
      [] v = "v2" -> 2
      [] v = "v3" -> 1
      [] OTHER    -> 3

\* items of playlistItems().list: the video, and snippet.publishedAt of the
\* item, which is when the video was put on the list (v3 is an old video
\* listed late)
PlaylistItems ==
    {[video_id |-> "v1", published_at |-> 1], [video_id |-> "v2", published_at |-> 2],
     [video_id |-> "v3", published_at |-> 3], [video_id |-> "v4", published_at |-> 3]}

Playlists == SeqsUpTo(PlaylistItems, MaxItems)

\* published_after: None, or the instant 2
PublishedAfters == {{}, {2}}

\* video_ids of a request: None (or empty), or a list of two ids
IdLists == {<<>>, <<"v1", "v2">>}

\* the selector fields of a collect request; channel stands for channel_id
\* or channel_url being set
Selectors == [channel : BOOLEAN, playlist : BOOLEAN, video_ids : IdLists]

SelectorCount(sel) ==
    (IF sel.channel THEN 1 ELSE 0) + (IF sel.playlist THEN 1 ELSE 0)
        + (IF sel.video_ids # <<>> THEN 1 ELSE 0)

\* what YouTube answers with an HttpError: nothing, channels().list, the
\* first or the second playlistItems().list request, or videos().list
CollectFaults == {"none", "channels", "list_1", "list_2", "videos"}

\* _fetch_video_details: one record per id, from the video resource, with
\* its publish date and statistics; a batch whose request raises HttpError
\* is logged and left out
fetch_video_details(video_ids, fault) ==
    IF fault = "videos" THEN <<>>
    ELSE [i \in 1..Len(video_ids) |->
            [video_id |-> video_ids[i], published_at |-> VideoPublishedAt(video_ids[i]),
             view_count |-> 1]]

\* the script's fetch_video_details: the statistics only
script_fetch_video_details(video_ids, fault) ==
    IF fault = "videos" THEN <<>>
    ELSE [i \in 1..Len(video_ids) |-> [video_id |-> video_ids[i], view_count |-> 1]]

\* if published_after and snippet["publishedAt"] < published_after: continue
FilteredOut(item, published_after) ==
    published_after # {} /\ (\E b \in published_after : item.published_at < b)

Min(a, b) == IF a < b THEN a ELSE b

\* the while loop of _fetch_playlist_videos, from the request that starts at
\* item pos: each request asks for min(50, max_results - len(videos)) items,
\* the items not filtered out are appended, and the loop ends when enough
\* are kept, when the response has no nextPageToken, or at an HttpError
RECURSIVE PageLoop(_, _, _, _, _, _, _)
PageLoop(items, pos, videos, request_no, max_results, published_after, fault) ==
    IF Len(videos) >= max_results THEN videos
    ELSE IF (fault = "list_1" /\ request_no = 1) \/ (fault = "list_2" /\ request_no = 2)
    THEN videos
    ELSE LET n == Min(PageLimit, max_results - Len(videos))
             page == SubSeq(items, pos, Min(pos + n - 1, Len(items)))
             kept == SelectSeq(page, LAMBDA it : ~FilteredOut(it, published_after))
         IN IF pos + n > Len(items)
            THEN videos \o kept
            ELSE PageLoop(items, pos + n, videos \o kept, request_no + 1, max_results,
                          published_after, fault)

\* dict.update: the fields of d replace or extend those of v
Update(v, d) ==
    [f \in (DOMAIN v) \cup (DOMAIN d) |-> IF f \in DOMAIN d THEN d[f] ELSE v[f]]

\* details_dict = {v["video_id"]: v for v in detailed_videos}, then
\* video.update(details_dict.get(video_id, {})) for every kept video
MergeDetails(videos, details) ==
    [i \in 1..Len(videos) |->
        LET found == {j \in 1..Len(details) : details[j].video_id = videos[i].video_id}
        IN IF found = {} THEN videos[i]
           ELSE Update(videos[i], details[CHOOSE j \in found : \A k \in found : k <= j])]

VideoIdsOf(videos) == [i \in 1..Len(videos) |-> videos[i].video_id]

\* _fetch_playlist_videos on the playlist items: the paging loop, then the
\* details of the kept videos merged in
fetch_playlist_videos(items, max_results, published_after, fault) ==
    LET videos == PageLoop(items, 1, <<>>, 1, max_results, published_after, fault)
    IN IF videos = <<>> THEN <<>>
       ELSE MergeDetails(videos, fetch_video_details(VideoIdsOf(videos), fault))

\* the script's fetch_playlist_videos: the same loop, its own details
script_fetch_playlist_videos(items, max_results, published_after, fault) ==
    LET videos == PageLoop(items, 1, <<>>, 1, max_results, published_after, fault)
    IN IF videos = <<>> THEN <<>>
       ELSE MergeDetails(videos, script_fetch_video_details(VideoIdsOf(videos), fault))

\* POST /ingest/collect and YouTubeService.collect_videos up to the save: the
\* handler rejects a request without any selector, the service takes the
\* first selector that is set in the order video_ids, channel, playlist.
\* The channel's uploads playlist and the requested playlist are the one
\* playlist of the model.
collect_videos(items, sel, max_results, published_after, fault) ==
    IF sel.video_ids # <<>>
    THEN [outcome |-> "ok", videos |-> fetch_video_details(sel.video_ids, fault)]
    ELSE IF sel.channel
    THEN IF fault = "channels"
         THEN [outcome |-> "error", videos |-> <<>>]
         ELSE [outcome |-> "ok",
               videos |-> fetch_playlist_videos(items, max_results, published_after, fault)]
    ELSE IF sel.playlist
    THEN [outcome |-> "ok",
          videos |-> fetch_playlist_videos(items, max_results, published_after, fault)]
    ELSE [outcome |-> "invalid_selector", videos |-> <<>>]

\* the whole request: the videos are saved over the videos file when there
\* are any, and their number is returned
Collect(sel, max_results, published_after, fault) ==
    \E r \in {collect_videos(playlist, sel, max_results, published_after, fault)} :
       /\ videosFile' = IF r.videos # <<>> THEN [st |-> "ok", rows |-> r.videos]
                        ELSE videosFile
       /\ last' = Done("collect", r.outcome, FALSE,
                       [selector |-> sel, max_results |-> max_results,
                        published_after |-> published_after, fault |-> fault],
                       <<Len(r.videos), Len(r.videos)>>, r.videos)
       /\ UNCHANGED <<model_name, index, metadata, indexFile, embeddingsFile,
                      transcriptsFile, script, builds, playlist, runs, pager>>

\* collect_youtube.py: argparse takes exactly one of --channel-id,
\* --playlist-id, --video-ids
ScriptSelectors == {sel \in Selectors : SelectorCount(sel) = 1}

\* main() of collect_youtube.py
script_collect(items, sel, max_results, published_after, fault) ==
    IF sel.channel
    THEN IF fault = "channels"
         THEN [outcome |-> "error", videos |-> <<>>]
         ELSE [outcome |-> "ok",
               videos |-> script_fetch_playlist_videos(items, max_results,
                                                       published_after, fault)]
    ELSE IF sel.playlist
    THEN [outcome |-> "ok",
          videos |-> script_fetch_playlist_videos(items, max_results, published_after,
                                                  fault)]
    ELSE [outcome |-> "ok", videos |-> script_fetch_video_details(sel.video_ids, fault)]

\* one run of the script: it exits without writing when nothing was collected
ScriptCollect(sel, max_results, published_after, fault) ==
    \E r \in {script_collect(playlist, sel, max_results, published_after, fault)} :
       /\ videosFile' = IF r.videos # <<>> THEN [st |-> "ok", rows |-> r.videos]
                        ELSE videosFile
       /\ last' = Done("script_collect", r.outcome, FALSE,
                       [selector |-> sel, max_results |-> max_results,
                        published_after |-> published_after, fault |-> fault],
                       <<Len(r.videos), Len(r.videos)>>, r.videos)
       /\ UNCHANGED <<model_name, index, metadata, indexFile, embeddingsFile,
                      transcriptsFile, script, builds, playlist, runs, pager>>

\* ---------------------------------------------------------- transcripts
\* What YouTube answers to a transcript request for a video, by attempt
\* (1 is the first request of a run for that video): v1 and v4 have captions;
\* v2 has them disabled, for good; v3 meets a network error on the first
\* attempt and would be served on the next.
Upstream(v, attempt) ==
    CASE v = "v1" -> [kind |-> "segments", segments |-> <<"t", "a">>]
      [] v = "v2" -> [kind |-> "disabled", segments |-> <<>>]
      [] v = "v3" -> IF attempt = 1 THEN [kind |-> "network_error", segments |-> <<>>]
                     ELSE [kind |-> "segments", segments |-> <<"tc">>]
      [] OTHER    -> [kind |-> "segments", segments |-> <<"tb">>]

\* get_transcript: one request; TranscriptsDisabled, NoTranscriptFound and
\* VideoUnavailable are caught and give None, and so does every other
\* exception.  None is the empty list here: the caller only tests "if
\* transcript".
get_transcript(video_id) ==
    LET answer == Upstream(video_id, 1)
    IN IF answer.kind = "segments" THEN answer.segments ELSE <<>>

\* " ".join(texts)
RECURSIVE JoinText(_)
JoinText(texts) ==
    IF texts = <<>> THEN ""
    ELSE IF Len(texts) = 1 THEN texts[1]
    ELSE texts[1] \o " " \o JoinText(Tail(texts))

\* "transcript" in df.columns
HasColumn(rows, c) == \E i \in 1..Len(rows) : c \in DOMAIN rows[i]

\* the rows fetch_transcripts selects from the videos frame: those named by
\* video_ids when it is given, and of these, unless force_refresh, those
\* without a transcript when the frame has a transcript column at all
SelectVideos(rows, video_ids, force_refresh) ==
    LET named == IF video_ids = <<>> THEN rows
                 ELSE SelectSeq(rows, LAMBDA r :
                         \E i \in 1..Len(video_ids) : video_ids[i] = r.video_id)
    IN IF ~force_refresh /\ HasColumn(named, "transcript")
       THEN SelectSeq(named, LAMBDA r : r.transcript = NoTranscript \/ r.transcript = "")
       ELSE named

\* FetchLoop with the bug of giving up at the first video without a
\* transcript: the rows after it are not processed
RECURSIVE FetchLoopStopsAtFailure(_)
FetchLoopStopsAtFailure(df) ==
    IF df = <<>> THEN <<>>
    ELSE LET transcript == get_transcript(df[1].video_id)
         IN IF transcript = <<>>
            THEN <<[video_id |-> df[1].video_id, transcript |-> NoTranscript]>>
            ELSE <<[video_id |-> df[1].video_id, transcript |-> JoinText(transcript)]>>
                    \o FetchLoopStopsAtFailure(Tail(df))

\* the loop over the selected rows: one get_transcript per row, and one
\* transcript record per row, with None for a video that gave nothing
FetchLoop(df) ==
    [i \in 1..Len(df) |->
        LET transcript == get_transcript(df[i].video_id)
        IN [video_id |-> df[i].video_id,
            transcript |-> IF transcript # <<>> THEN JoinText(transcript) ELSE NoTranscript]]

\* one row of df.merge(transcript_df, on="video_id", how="left",
\* suffixes=("", "_new")) after the transcript column is settled: the new
\* transcript, or the one the row had when the new one is null
MergedRow(l, r) ==
    Update(l, [transcript |-> IF r.transcript = NoTranscript /\ "transcript" \in DOMAIN l
                              THEN l.transcript ELSE r.transcript])

\* the left join: every row of df, once for each transcript record of its
\* video_id, in the order of df
RECURSIVE MergeFrom(_, _, _)
MergeFrom(df, transcripts, i) ==
    IF i > Len(df) THEN <<>>
    ELSE LET matches == SelectSeq(transcripts, LAMBDA t : t.video_id = df[i].video_id)
         IN [j \in 1..Len(matches) |-> MergedRow(df[i], matches[j])]
               \o MergeFrom(df, transcripts, i + 1)

Succeeded(transcripts) == SelectSeq(transcripts, LAMBDA t : t.transcript # NoTranscript)

\* fetch_transcripts on the videos file as it was read: the outcome, the
\* rows it writes to the transcripts file, the counts it returns and the
\* videos it asked YouTube for.  With no row selected the list of transcript
\* records is empty, pd.DataFrame([]) has no video_id column and the merge
\* raises KeyError.
fetch_transcripts(vf, video_ids, force_refresh) ==
    IF vf.st = "absent"
    THEN [outcome |-> "videos_not_found", rows |-> <<>>, counts |-> <<0, 0>>,
          calls |-> <<>>]
    ELSE LET df == SelectVideos(vf.rows, video_ids, force_refresh)
             transcripts == FetchLoop(df)
         IN IF transcripts = <<>>
            THEN [outcome |-> "error", rows |-> <<>>, counts |-> <<0, 0>>, calls |-> <<>>]
            ELSE [outcome |-> "ok", rows |-> MergeFrom(df, transcripts, 1),
                  counts |-> <<Len(Succeeded(transcripts)),
                               Len(transcripts) - Len(Succeeded(transcripts))>>,
                  calls |-> VideoIdsOf(df)]

\* fetch_transcript_ytdlp: one request; every failure, and an empty text,
\* gives transcript None and transcript_available False
fetch_transcript_ytdlp(video_id) ==
    LET answer == Upstream(video_id, 1)
    IN IF answer.kind = "segments" /\ answer.segments # <<>>
       THEN [transcript |-> JoinText(answer.segments), transcript_available |-> TRUE]
       ELSE [transcript |-> NoTranscript, transcript_available |-> FALSE]

\* get_transcripts.py on the videos file as it was read: every row is
\* fetched and gets its transcript (None when there is none) and its
\* transcript_available flag
script_transcripts(vf) ==
    IF vf.st = "absent"
    THEN [outcome |-> "videos_not_found", rows |-> <<>>, counts |-> <<0, 0>>,
          calls |-> <<>>]
    ELSE LET rows == [i \in 1..Len(vf.rows) |->
                         Update(vf.rows[i], fetch_transcript_ytdlp(vf.rows[i].video_id))]
             success_count == Len(SelectSeq(rows, LAMBDA r : r.transcript_available))
         IN [outcome |-> "ok", rows |-> rows,
             counts |-> <<success_count, Len(rows) - success_count>>,
             calls |-> VideoIdsOf(vf.rows)]

\* video_ids of a transcript request: None, one video, or two
FetchIdLists == {<<>>, <<"v1">>, <<"v2", "v3">>}

\* what a finished transcript run leaves in `last`
DoneRun(op, r, video_ids, force_refresh) ==
    [op |-> op, outcome |-> r.outcome, noop |-> FALSE,
     args |-> [video_ids |-> video_ids, force_refresh |-> force_refresh],
     counts |-> r.counts, results |-> r.rows, calls |-> r.calls]

\* POST /ingest/transcripts with nothing else running: the videos file is
\* read, the transcripts are fetched and the transcripts file is written
FetchTranscripts(video_ids, force_refresh) ==
    \E r \in {fetch_transcripts(videosFile, video_ids, force_refresh)} :
       /\ transcriptsFile' = IF r.outcome = "ok" THEN [st |-> "ok", rows |-> r.rows]
                             ELSE transcriptsFile
       /\ last' = DoneRun("fetch_transcripts", r, video_ids, force_refresh)
       /\ UNCHANGED <<model_name, index, metadata, indexFile, embeddingsFile, script,
                      builds, videosFile, playlist, runs, pager>>

\* one run of get_transcripts.py with nothing else running
ScriptTranscripts ==
    \E r \in {script_transcripts(videosFile)} :
       /\ transcriptsFile' = IF r.outcome = "ok" THEN [st |-> "ok", rows |-> r.rows]
                             ELSE transcriptsFile
       /\ last' = DoneRun("script_transcripts", r, <<>>, TRUE)
       /\ UNCHANGED <<model_name, index, metadata, indexFile, embeddingsFile, script,
                      builds, videosFile, playlist, runs, pager>>

\* --------------------------------------------- overlapping transcript runs
\* The server and get_transcripts.py are two OS processes that share the two
\* parquet files and no lock. A run reads the videos file when it starts,
\* spends its time in the requests to YouTube, and writes the transcripts
\* file when it ends; the other process can take its steps in between. Each
\* read_parquet and each to_parquet is taken as one step.
TranscriptArgs(p) ==
    IF p = "server"
    THEN {[video_ids |-> ids, force_refresh |-> force] :
             ids \in FetchIdLists, force \in BOOLEAN}
    ELSE {[video_ids |-> <<>>, force_refresh |-> TRUE]}

RunOp(p) == IF p = "server" THEN "fetch_transcripts" ELSE "script_transcripts"

\* the run of process p from the videos file it read
RunResult(p, vf, args) ==
    IF p = "server" THEN fetch_transcripts(vf, args.video_ids, args.force_refresh)
    ELSE script_transcripts(vf)

\* process p starts a transcript run: the existence test and read_parquet; a
\* run that finds no videos file ends at once
BeginFetch(p, args) ==
    /\ runs[p].pc = "idle"
    /\ IF videosFile.st = "absent"
       THEN \E r \in {RunResult(p, videosFile, args)} :
               /\ runs' = [runs EXCEPT ![p] = [pc |-> "done", args |-> args,
                                               outcome |-> r.outcome, rows |-> r.rows]]
               /\ last' = DoneRun(RunOp(p), r, args.video_ids, args.force_refresh)
       ELSE /\ runs' = [runs EXCEPT ![p] = [pc |-> "fetching", args |-> args,
                                            vf |-> videosFile]]
            /\ last' = last
    /\ UNCHANGED <<model_name, index, metadata, indexFile, embeddingsFile,
                   transcriptsFile, script, builds, videosFile, playlist, pager>>

\* process p ends its run: the loop over the rows it read, the merge and
\* to_parquet over the transcripts file
EndFetch(p) ==
    /\ runs[p].pc = "fetching"
    /\ \E r \in {RunResult(p, runs[p].vf, runs[p].args)} :
          /\ transcriptsFile' = IF r.outcome = "ok" THEN [st |-> "ok", rows |-> r.rows]
                                ELSE transcriptsFile
          /\ runs' = [runs EXCEPT ![p] = [pc |-> "done", args |-> runs[p].args,
                                          outcome |-> r.outcome, rows |-> r.rows]]
          /\ last' = DoneRun(RunOp(p), r, runs[p].args.video_ids,
                             runs[p].args.force_refresh)
    /\ UNCHANGED <<model_name, index, metadata, indexFile, embeddingsFile, script,
                   builds, videosFile, playlist, pager>>

\* ------------------------------------------------- the paging loop, stepwise
\* The while loop of _fetch_playlist_videos (and of fetch_playlist_videos in
\* collect_youtube.py) one iteration at a time. The page token is the
\* position of the next item of the playlist: YouTube returns a
\* nextPageToken exactly when items are left after the page it served.
PagingFaults == {"none", "list_1", "list_2"}

\* the loop sending the token of the page it has just read again
SamePageToken(pos, n) == pos

\* next_page_token = response.get("nextPageToken")
NextPageToken(pos, n) == pos + n

\* a collect over the playlist enters the loop: videos = [],
\* next_page_token = None
BeginPaging(max_results, published_after, fault) ==
    /\ pager.pc = "idle"
    /\ pager' = [pc |-> "paging", pos |-> 1, videos |-> <<>>, request_no |-> 1,
                 args |-> [max_results |-> max_results,
                           published_after |-> published_after, fault |-> fault]]
    /\ UNCHANGED <<model_name, index, metadata, indexFile, embeddingsFile,
                   transcriptsFile, script, builds, videosFile, playlist, runs, last>>

HttpErrorAt(fault, request_no) ==
    (fault = "list_1" /\ request_no = 1) \/ (fault = "list_2" /\ request_no = 2)

\* one pass through the loop: the test of the while, the request, the
\* items kept, the token
PageStep ==
    /\ pager.pc = "paging"
    /\ LET a == pager.args
           n == Min(PageLimit, a.max_results - Len(pager.videos))
           page == SubSeq(playlist, pager.pos, Min(pager.pos + n - 1, Len(playlist)))
           kept == SelectSeq(page, LAMBDA it : ~FilteredOut(it, a.published_after))
       IN pager' =
            IF Len(pager.videos) >= a.max_results
            THEN [pager EXCEPT !.pc = "done"]
            ELSE IF HttpErrorAt(a.fault, pager.request_no)
            THEN [pager EXCEPT !.pc = "done"]
            ELSE IF pager.pos + n > Len(playlist)
            THEN [pager EXCEPT !.pc = "done", !.videos = @ \o kept]
            ELSE [pager EXCEPT !.pos = NextPageToken(pager.pos, n),
                               !.videos = @ \o kept, !.request_no = @ + 1]
    /\ UNCHANGED <<model_name, index, metadata, indexFile, embeddingsFile,
                   transcriptsFile, script, builds, videosFile, playlist, runs, last>>

\* after the loop: the details are merged in and collect_videos saves the
\* videos, when there are any
FinishCollect ==
    /\ pager.pc = "done"
    /\ \E videos \in {IF pager.videos = <<>> THEN <<>>
                      ELSE MergeDetails(pager.videos,
                                        fetch_video_details(VideoIdsOf(pager.videos),
                                                            pager.args.fault))} :
          /\ videosFile' = IF videos # <<>> THEN [st |-> "ok", rows |-> videos]
                           ELSE videosFile
          /\ last' = Done("collect", "ok", FALSE,
                          [selector |-> [channel |-> FALSE, playlist |-> TRUE,
                                         video_ids |-> <<>>],
                           max_results |-> pager.args.max_results,
                           published_after |-> pager.args.published_after,
                           fault |-> pager.args.fault],
                          <<Len(videos), Len(videos)>>, videos)
    /\ pager' = NoPager
    /\ UNCHANGED <<model_name, index, metadata, indexFile, embeddingsFile,
                   transcriptsFile, script, builds, playlist, runs>>

\* ------------------------------------------------------ specifications
\* The server: the service's operations and the transcript stage feeding it.
\* Search is applied with one query here; SpecSearch varies its arguments.
Next ==
    \/ load_index
    \/ \E m \in Models \cup {"None"}, f \in BOOLEAN, fault \in Faults : build_index(m, f, fault)
    \/ \E k \in 1..MaxTopK : Search("qx", k, "cosine", {})
    \/ \E rows \in TranscriptTables : save_transcripts(rows)

Spec == Init /\ [][Next]_vars

\* The rebuild alone: the transcript stage has left some table (or none yet),
\* and the server rebuilds and reloads, with every failure the environment
\* can cause.
InitBuild ==
    /\ model_name = DefaultModel
    /\ index = NoIndex
    /\ metadata = NoMetadata
    /\ indexFile = AbsentFile
    /\ embeddingsFile = AbsentFile
    /\ transcriptsFile \in {AbsentFile} \cup {[st |-> "ok", rows |-> t] : t \in TranscriptTables}
    /\ script = ScriptIdle
    /\ videosFile = AbsentFile
    /\ runs = [p \in Procs |-> NoRun]
    /\ pager = NoPager
    /\ playlist = <<>>
    /\ builds = 0
    /\ last = Done("init", "ok", FALSE, NoArgs, <<0, 0>>, <<>>)

NextBuild ==
    \/ load_index
    \/ \E m \in Models \cup {"None"}, f \in BOOLEAN, fault \in Faults : build_index(m, f, fault)

SpecBuild == InitBuild /\ [][NextBuild]_vars

\* The embedding script beside the server: the transcript stage has written
\* some table; the script builds and writes the two files, the server loads
\* them and answers searches.  The script runs without --force, so it
\* writes one generation of files.
InitSearch ==
    /\ model_name \in Models
    /\ index = NoIndex
    /\ metadata = NoMetadata
    /\ indexFile = AbsentFile
    /\ embeddingsFile = AbsentFile
    /\ transcriptsFile \in {[st |-> "ok", rows |-> t] : t \in TranscriptTables}
    /\ script = ScriptIdle
    /\ videosFile = AbsentFile
    /\ runs = [p \in Procs |-> NoRun]
    /\ pager = NoPager
    /\ playlist = <<>>
    /\ builds = 0
    /\ last = Done("init", "ok", FALSE, NoArgs, <<0, 0>>, <<>>)

NextSearch ==
    \/ \E m \in Models, mt \in ScriptMetrics : ScriptMain(m, mt, FALSE)
    \/ ScriptSaveIndex
    \/ ScriptSaveEmbeddings
    \/ load_index
    \/ \E q \in Queries, k \in 1..MaxTopK, mt \in Metrics, ms \in MinScores :
          Search(q, k, mt, ms)

SpecSearch == InitSearch /\ [][NextSearch]_vars

\* The server answering queries: the script has run to its end on some
\* transcript table (with some model and metric), and the server has started
\* and loaded the two files.  From there the server searches and reloads.
InitQuery ==
    /\ model_name \in Models
    /\ \E t \in TranscriptTables, m \in Models, mt \in ScriptMetrics :
          /\ Len(FilterTranscripts(t)) > 0
          /\ transcriptsFile = [st |-> "ok", rows |-> t]
          /\ \E df \in {FilterTranscripts(t)} :
               \E embeddings \in {EmbedRows(m, df)} :
                  /\ indexFile = write_index(build_faiss_index(embeddings, mt, m, 1))
                  /\ embeddingsFile = to_parquet(WithEmbeddings(df, embeddings), 1)
    /\ \E r \in {LoadResult(NoIndex, NoMetadata, indexFile, embeddingsFile)} :
          /\ index = r.index
          /\ metadata = r.metadata
          /\ last = Done("load_index", r.outcome, FALSE, NoArgs,
                         <<Len(r.metadata.rows), Len(r.index.vecs)>>, <<>>)
    /\ script = ScriptIdle
    /\ videosFile = AbsentFile
    /\ runs = [p \in Procs |-> NoRun]
    /\ pager = NoPager
    /\ playlist = <<>>
    /\ builds = 1

\* the metric argument, which search never reads, stays at its default here
NextQuery ==
    \/ load_index
    \/ \E q \in Queries, k \in 1..MaxTopK, ms \in MinScores : Search(q, k, "cosine", ms)

SpecQuery == InitQuery /\ [][NextQuery]_vars

\* Collection: YouTube holds some playlist; the service and the script
\* collect from it, with every selector, limit, date bound and upstream error.
InitCollect ==
    /\ model_name = DefaultModel
    /\ index = NoIndex
    /\ metadata = NoMetadata
    /\ indexFile = AbsentFile
    /\ embeddingsFile = AbsentFile
    /\ transcriptsFile = AbsentFile
    /\ script = ScriptIdle
    /\ videosFile = AbsentFile
    /\ runs = [p \in Procs |-> NoRun]
    /\ pager = NoPager
    /\ playlist \in Playlists
    /\ builds = 0
    /\ last = Done("init", "ok", FALSE, NoArgs, <<0, 0>>, <<>>)

NextCollect ==
    \/ \E sel \in Selectors, n \in 1..MaxResults, pa \in PublishedAfters,
          fault \in CollectFaults : Collect(sel, n, pa, fault)
    \/ \E sel \in ScriptSelectors, n \in 1..MaxResults, pa \in PublishedAfters,
          fault \in CollectFaults : ScriptCollect(sel, n, pa, fault)

SpecCollect == InitCollect /\ [][NextCollect]_vars

\* The transcript stage: a collect over some playlist has written the videos
\* file; transcripts are fetched through the API and by the script.
InitTranscripts ==
    /\ model_name = DefaultModel
    /\ index = NoIndex
    /\ metadata = NoMetadata
    /\ indexFile = AbsentFile
    /\ embeddingsFile = AbsentFile
    /\ transcriptsFile = AbsentFile
    /\ script = ScriptIdle
    /\ playlist \in Playlists
    /\ \E r \in {collect_videos(playlist,
                                [channel |-> FALSE, playlist |-> TRUE, video_ids |-> <<>>],
                                MaxResults, {}, "none")} :
          videosFile = IF r.videos # <<>> THEN [st |-> "ok", rows |-> r.videos]
                       ELSE AbsentFile
    /\ runs = [p \in Procs |-> NoRun]
    /\ pager = NoPager
    /\ builds = 0
    /\ last = Done("init", "ok", FALSE, NoArgs, <<0, 0>>, <<>>)

NextTranscripts ==
    \/ \E ids \in FetchIdLists, force \in BOOLEAN : FetchTranscripts(ids, force)
    \/ ScriptTranscripts

SpecTranscripts == InitTranscripts /\ [][NextTranscripts]_vars

\* Two transcript runs, one through the API and one by the script, each in
\* two steps, in every interleaving.
NextOverlap ==
    \/ \E p \in Procs : \E args \in TranscriptArgs(p) : BeginFetch(p, args)
    \/ \E p \in Procs : EndFetch(p)

SpecOverlap == InitTranscripts /\ [][NextOverlap]_vars

\* A collect over the playlist, its loop taken one request at a time. The
\* loop is straight-line code of a running process: a pass that can be taken
\* is taken, which is weak fairness of PageStep.
NextPaging ==
    \/ \E max_results \in 1..MaxResults, published_after \in PublishedAfters,
          fault \in PagingFaults : BeginPaging(max_results, published_after, fault)
    \/ PageStep
    \/ FinishCollect

SpecPagingFair == InitCollect /\ [][NextPaging]_vars /\ WF_vars(PageStep)

\* ================================================================ claims
Rebuilt == last.op = "build_index" /\ ~last.noop /\ last.outcome = "ok"

\* vector i of an index file, cut out of its codes
FileVector(f, i) == SubSeq(f.codes, (i - 1) * f.d + 1, i * f.d)

\* C1: after every successful rebuild the vectors stand in transcript input
\* order and the metadata rows in that same order: vector i is the embedding
\* of the transcript of metadata row i, row i is the i-th kept transcript row,
\* and the vector count equals the row count, in memory and in the two files.
BuildAligned ==
    Rebuilt =>
        LET df == FilterTranscripts(transcriptsFile.rows)
        IN /\ Len(index.vecs) = Len(df)
           /\ Len(metadata.rows) = Len(df)
           /\ indexFile.st = "ok" /\ indexFile.ntotal = Len(df)
           /\ embeddingsFile.st = "ok" /\ Len(embeddingsFile.rows) = Len(df)
           /\ \A i \in 1..Len(df) :
                 /\ metadata.rows[i].video_id = df[i].video_id
                 /\ metadata.rows[i].transcript = df[i].transcript
                 /\ index.vecs[i] = NormalizeL2(Encode(model_name, metadata.rows[i].transcript))
                 /\ metadata.rows[i].embedding = index.vecs[i]
                 /\ embeddingsFile.rows[i].video_id = df[i].video_id
                 /\ embeddingsFile.rows[i].transcript = df[i].transcript
                 /\ FileVector(indexFile, i) =
                       NormalizeL2(Encode(model_name, embeddingsFile.rows[i].transcript))

\* a rebuild of two videos whose vectors differ, so an order can be wrong
BuildAlignedWitness ==
    Rebuilt /\ Len(index.vecs) = 2 /\ index.vecs[1] # index.vecs[2]

\* C2: a load_index that fails leaves self.index and self.metadata as they
\* were before the call.
LoadFailureKeepsState ==
    [][(last'.op = "load_index" /\ last'.outcome # "ok")
          => (index' = index /\ metadata' = metadata)]_vars

\* C3: every search that returns results resolves its hits against an index
\* and a metadata table of one build generation.
SearchOneGeneration ==
    (last.op = "search" /\ last.outcome = "ok") => index.gen = metadata.gen

\* C4: load_index fails, and loads nothing, whenever the index file holds a
\* number of vectors different from the number of rows of the metadata file.
LoadRejectsCountMismatch ==
    (/\ last.op = "load_index"
     /\ indexFile.st = "ok" /\ embeddingsFile.st = "ok"
     /\ indexFile.ntotal # Len(embeddingsFile.rows))
        => last.outcome # "ok"

\* C5: at every moment the index file and the metadata file are a pair of one
\* build generation: both absent, or both written by the same build.
DiskPairOneGeneration ==
    /\ indexFile.st = embeddingsFile.st
    /\ (indexFile.st = "ok" /\ embeddingsFile.st = "ok") => indexFile.gen = embeddingsFile.gen

\* C6: a build_index that fails leaves self.index, self.metadata and the
\* embedding model as they were before the call.
BuildFailureKeepsState ==
    [][(last'.op = "build_index" /\ last'.outcome # "ok")
          => (index' = index /\ metadata' = metadata /\ model_name' = model_name)]_vars

\* C7: whenever search returns results, the model that embedded the query is
\* the model that produced the vectors of the loaded index.
SearchModelMatches ==
    (last.op = "search" /\ last.outcome = "ok") => index.model = model_name

\* C8: a build_index call that finds the index file and has force_rebuild
\* unset succeeds and returns the counts of the snapshot on disk.
NoopBuildReturnsCounts ==
    (last.op = "build_index" /\ last.noop) =>
        /\ last.outcome = "ok"
        /\ last.counts = <<Len(embeddingsFile.rows), indexFile.ntotal>>

\* the results of search as (ordinal, score, video) triples, for every
\* argument the model draws
SearchAll(ix, md) ==
    [a \in Queries \X (1..MaxTopK) \X MinScores |->
        search(ix, md, model_name, a[1], a[2], "cosine", a[3])]

\* C9: after a successful rebuild, load_index on the two files it wrote gives
\* a snapshot whose search results (ordinals, scores, order) equal, for every
\* query, top_k and min_score, those of the snapshot the rebuild left in memory.
RoundTrip ==
    Rebuilt =>
        LET r == LoadResult(NoIndex, NoMetadata, indexFile, embeddingsFile)
        IN /\ r.outcome = "ok"
           /\ SearchAll(r.index, r.metadata) = SearchAll(index, metadata)

\* a rebuild from a table whose first row was filtered out, so the frame in
\* memory carries labels the loaded frame will not, with a search that hits
RoundTripWitness ==
    /\ Rebuilt
    /\ Len(index.vecs) >= 1
    /\ metadata.rows[1].label # 0
    /\ \E a \in Queries \X (1..MaxTopK) \X MinScores :
          Len(SearchAll(index, metadata)[a].results) >= 1

\* the last query as search embeds it
LastQuery == NormalizeL2(Encode(model_name, last.args.query))

\* all vectors of the loaded index in the order search ranks them, each with
\* its score, cut down to those whose score is at least min_score
RankedEligible ==
    SelectSeq(FaissRank(index, LastQuery, 0..(Len(index.vecs) - 1)),
              LAMBDA h : \A m \in last.args.min_score : h.dist >= m)

FirstK(s, k) == SubSeq(s, 1, IF Len(s) < k THEN Len(s) ELSE k)

\* C10: the result of search is the first top_k entries of the ranked list of
\* all vectors whose score is at least min_score: the filter comes before
\* the truncation, not after it.
MinScoreBeforeTopK ==
    (last.op = "search" /\ last.outcome = "ok") =>
        [n \in 1..Len(last.results) |-> last.results[n].ordinal]
            = [n \in 1..Len(FirstK(RankedEligible, last.args.top_k)) |->
                  FirstK(RankedEligible, last.args.top_k)[n].idx]

\* C11: the results of every search stand in descending order of score, equal
\* scores in ascending order of ordinal, whatever metric the loaded index was
\* built with.
ResultsSortedByScore ==
    (last.op = "search" /\ last.outcome = "ok") =>
        \A n \in 1..(Len(last.results) - 1) :
            \/ last.results[n].score > last.results[n + 1].score
            \/ /\ last.results[n].score = last.results[n + 1].score
               /\ last.results[n].ordinal < last.results[n + 1].ordinal

\* a is b with some entries left out
RECURSIVE IsSubsequence(_, _)
IsSubsequence(a, b) ==
    IF a = <<>> THEN TRUE
    ELSE IF b = <<>> THEN FALSE
    ELSE IF Head(a) = Head(b) THEN IsSubsequence(Tail(a), Tail(b))
    ELSE IsSubsequence(a, Tail(b))

\* what the last search returns when it is repeated without min_score
LastUnfiltered ==
    search(index, metadata, model_name, last.args.query, last.args.top_k,
           last.args.metric, {})

\* C12: the result of a search with a min_score is a subsequence of the result
\* of the same search (same snapshot, query, top_k) without min_score: the
\* surviving hits keep their relative order, their ordinals and their scores.
MinScoreKeepsOrder ==
    (last.op = "search" /\ last.outcome = "ok" /\ last.args.min_score # {}
        /\ LastUnfiltered.outcome = "ok")
        => IsSubsequence(last.results, LastUnfiltered.results)

\* a search with a min_score that removed a hit and let another through
MinScoreKeepsOrderWitness ==
    /\ last.op = "search" /\ last.outcome = "ok" /\ last.args.min_score # {}
    /\ LastUnfiltered.outcome = "ok"
    /\ Len(last.results) >= 1
    /\ Len(last.results) < Len(LastUnfiltered.results)

\* C13: every score search returns from a cosine (inner product) index lies
\* in [0, 1], that is in 0 .. Unit*Unit in fixed point.
CosineScoreInUnitInterval ==
    (last.op = "search" /\ last.outcome = "ok" /\ index.kind = "IP") =>
        \A n \in 1..Len(last.results) :
            last.results[n].score >= 0 /\ last.results[n].score <= Unit * Unit

\* the metric an index was built with
BuildMetric(ix) == IF ix.kind = "IP" THEN "cosine" ELSE "euclidean"

\* C14: a search whose metric argument differs from the metric the loaded
\* index was built with fails with a metric mismatch and returns no results.
MetricMismatchFails ==
    (/\ last.op = "search"
     /\ index.kind # "none" /\ metadata.loaded
     /\ last.args.metric # BuildMetric(index))
        => last.outcome = "metric_mismatch"

\* the last search ran against a loaded snapshot none of whose vectors has a
\* score of at least min_score
NoHitClears ==
    /\ last.op = "search"
    /\ index.kind # "none" /\ metadata.loaded
    /\ \A i \in 0..(Len(index.vecs) - 1) :
          \E m \in last.args.min_score : FaissDist(index, LastQuery, i) < m

\* C15: a search against a loaded snapshot in which no hit clears min_score
\* returns normally, with an empty list.
EmptyWhenNothingClears ==
    NoHitClears => (last.outcome = "ok" /\ last.results = <<>>)

\* such a search against an index that holds vectors, within top_k of them
EmptyWhenNothingClearsWitness ==
    NoHitClears /\ Len(index.vecs) >= 1 /\ last.args.top_k >= Len(index.vecs)

WithText(rows) ==
    {i \in 1..Len(rows) : rows[i].transcript # NoTranscript /\ rows[i].transcript # ""}

\* C17: a successful rebuild indexes exactly the transcript rows whose
\* transcript is neither null nor empty: each of them has a metadata row and
\* a vector, no other row has, and videos_indexed and index_size both equal
\* their number.
RebuildIndexesTranscribed ==
    Rebuilt =>
        LET rows == transcriptsFile.rows
            n == Cardinality(WithText(rows))
        IN /\ last.counts = <<n, n>>
           /\ Len(index.vecs) = n
           /\ Len(metadata.rows) = n
           /\ \A i \in WithText(rows) :
                 \E k \in 1..n : /\ metadata.rows[k].label = i - 1
                                 /\ metadata.rows[k].video_id = rows[i].video_id
                                 /\ metadata.rows[k].transcript = rows[i].transcript
           /\ \A k \in 1..n : metadata.rows[k].label + 1 \in WithText(rows)

\* a rebuild from a table that holds a row with a text and a row without
RebuildIndexesTranscribedWitness ==
    /\ Rebuilt
    /\ WithText(transcriptsFile.rows) # {}
    /\ WithText(transcriptsFile.rows) # 1..Len(transcriptsFile.rows)


\* C18: a collect request that sets no selector, or more than one of
\* channel, playlist and id list, fails with the invalid-selector error and
\* leaves the videos file as it was.
ExactlyOneSelector ==
    [][(last'.op = "collect" /\ SelectorCount(last'.args.selector) # 1)
          => (last'.outcome = "invalid_selector" /\ videosFile' = videosFile)]_vars

Collected == last.op \in {"collect", "script_collect"}

\* C19: the count a collect returns and the number of records it stores are
\* at most max_results, for every selector and every upstream behaviour.
CollectWithinMaxResults ==
    Collected =>
        /\ last.counts[1] <= last.args.max_results
        /\ Len(last.results) <= last.args.max_results

\* the videos the last collect was pointed at, in upstream order
SourceIds ==
    IF last.args.selector.video_ids # <<>> THEN last.args.selector.video_ids
    ELSE VideoIdsOf(playlist)

\* those of them published at or after the published_after of the last collect
Qualifying ==
    SelectSeq(SourceIds, LAMBDA v : \A b \in last.args.published_after : VideoPublishedAt(v) >= b)

\* C20: a collect with published_after that meets no upstream error stores
\* the first max_results upstream videos published at or after
\* published_after (the bound itself included), in upstream order, reading
\* on past the earlier ones until it has max_results or upstream is exhausted.
PublishedAfterInclusive ==
    (/\ Collected /\ last.outcome = "ok"
     /\ last.args.fault = "none"
     /\ last.args.published_after # {}
     /\ SelectorCount(last.args.selector) = 1)
        => VideoIdsOf(last.results) = FirstK(Qualifying, last.args.max_results)

\* C21: collect upserts by video_id: a record stored before a collect and
\* not among the videos this collect returns is still stored after it, and
\* every video the collect returns is stored with the values it returned.
CollectUpserts ==
    [][(/\ last'.op \in {"collect", "script_collect"} /\ last'.outcome = "ok"
        /\ videosFile.st = "ok")
          => /\ \A i \in 1..Len(videosFile.rows) :
                   (\A j \in 1..Len(last'.results) :
                       last'.results[j].video_id # videosFile.rows[i].video_id)
                     => \E k \in 1..Len(videosFile'.rows) :
                           videosFile'.rows[k] = videosFile.rows[i]
             /\ \A j \in 1..Len(last'.results) :
                   \E k \in 1..Len(videosFile'.rows) :
                      videosFile'.rows[k] = last'.results[j]]_vars

\* C22: the videos file never holds two records of one video_id, whatever
\* the upstream pages repeat.
OneRecordPerVideo ==
    videosFile.st = "ok" =>
        \A i, j \in 1..Len(videosFile.rows) :
            i # j => videosFile.rows[i].video_id # videosFile.rows[j].video_id

FetchedByApi == last.op = "fetch_transcripts"

Fetched == last.op \in {"fetch_transcripts", "script_transcripts"}

Named(video_id, video_ids) ==
    video_ids = <<>> \/ (\E i \in 1..Len(video_ids) : video_ids[i] = video_id)

\* the rows of the videos file the last transcript run was asked to process
Selected == SelectSeq(videosFile.rows, LAMBDA r : Named(r.video_id, last.args.video_ids))

\* C23: a transcript run over at least one video processes every selected
\* video whatever happens to the others: it returns normally, success_count
\* + failed_count is the number of selected videos, and every selected video
\* is written with its transcript when YouTube serves one and with None when
\* the request fails.
EachVideoIndependent ==
    (Fetched /\ videosFile.st = "ok" /\ Selected # <<>>) =>
        /\ last.outcome = "ok"
        /\ last.counts[1] + last.counts[2] = Len(Selected)
        /\ last.counts[2] =
              Len(SelectSeq(Selected, LAMBDA r : Upstream(r.video_id, 1).kind # "segments"))
        /\ \A i \in 1..Len(Selected) :
              \E k \in 1..Len(last.results) :
                 /\ last.results[k].video_id = Selected[i].video_id
                 /\ (last.results[k].transcript = NoTranscript)
                       = (Upstream(Selected[i].video_id, 1).kind # "segments")

\* a run in which a video that fails (for good, or by a network error) comes
\* before a video that is served
EachVideoIndependentWitness ==
    /\ Fetched /\ videosFile.st = "ok"
    /\ Len(Selected) = 2
    /\ Upstream(Selected[1].video_id, 1).kind # "segments"
    /\ Upstream(Selected[2].video_id, 1).kind = "segments"
    /\ last.counts = <<1, 1>>

HasText(row) == row.transcript # NoTranscript /\ row.transcript # ""

\* C24: a transcript run without force_refresh asks YouTube for no video
\* that already has a transcript from an earlier run.
SecondRunSkipsFetched ==
    [][(/\ last'.op = "fetch_transcripts" /\ ~last'.args.force_refresh
        /\ transcriptsFile.st = "ok")
          => \A i \in 1..Len(transcriptsFile.rows) :
                HasText(transcriptsFile.rows[i])
                  => \A c \in 1..Len(last'.calls) :
                        last'.calls[c] # transcriptsFile.rows[i].video_id]_vars

\* what a run recorded for a video, beside the fields collect stored
Recorded(row) ==
    [f \in (DOMAIN row) \ {"video_id", "published_at", "view_count"} |-> row[f]]

\* C25: what a run records for a video whose captions are unavailable for
\* good differs from what it records for a video whose request met a
\* transient error.
PermanentNotTransient ==
    (Fetched /\ last.outcome = "ok") =>
        \A i, j \in 1..Len(last.results) :
            (/\ Upstream(last.results[i].video_id, 1).kind = "disabled"
             /\ Upstream(last.results[j].video_id, 1).kind = "network_error")
                => Recorded(last.results[i]) # Recorded(last.results[j])

\* C26: a video whose first request meets a transient error and whose next
\* request would be served ends the run with a transcript.
TransientRetried ==
    (Fetched /\ last.outcome = "ok") =>
        \A i \in 1..Len(last.results) :
            (/\ Upstream(last.results[i].video_id, 1).kind = "network_error"
             /\ Upstream(last.results[i].video_id, 2).kind = "segments")
                => HasText(last.results[i])

\* C28: a transcript run called with a video_ids list leaves the videos file
\* as it is, keeps in the transcripts file every row of a video outside the
\* list, and writes the processed videos with the fields collect stored.
FetchLeavesOthers ==
    [][(/\ last'.op = "fetch_transcripts" /\ last'.outcome = "ok"
        /\ last'.args.video_ids # <<>>)
          => /\ videosFile' = videosFile
             /\ transcriptsFile.st = "ok" =>
                   \A i \in 1..Len(transcriptsFile.rows) :
                       ~Named(transcriptsFile.rows[i].video_id, last'.args.video_ids)
                         => \E k \in 1..Len(transcriptsFile'.rows) :
                               transcriptsFile'.rows[k] = transcriptsFile.rows[i]
             /\ \A k \in 1..Len(transcriptsFile'.rows) :
                   \E i \in 1..Len(videosFile.rows) :
                      \A f \in DOMAIN videosFile.rows[i] :
                         transcriptsFile'.rows[k][f] = videosFile.rows[i][f]]_vars

\* C29: a transcript run that selects no video returns (0, 0) normally.
NothingSelectedReturnsZero ==
    (FetchedByApi /\ videosFile.st = "ok" /\ Selected = <<>>) =>
        (last.outcome = "ok" /\ last.counts = <<0, 0>>)

BothRunsDone == \A p \in Procs : runs[p].pc = "done" /\ runs[p].outcome = "ok"

\* C27: when two overlapping transcript runs have both ended, no run's
\* update is lost and every video is as one of the runs left it: each video
\* a run wrote has a row in the transcripts file, and that row is the row
\* one of the two runs wrote for it.
NoUpdateLost ==
    BothRunsDone =>
        \A p \in Procs : \A i \in 1..Len(runs[p].rows) :
            \E k \in 1..Len(transcriptsFile.rows) :
               /\ transcriptsFile.rows[k].video_id = runs[p].rows[i].video_id
               /\ \E q \in Procs : \E j \in 1..Len(runs[q].rows) :
                     transcriptsFile.rows[k] = runs[q].rows[j]

\* the loop has ended for one of its three reasons: enough videos are kept,
\* the request failed, or the page served was the last of the playlist
LoopEnded ==
    \/ Len(pager'.videos) >= pager.args.max_results
    \/ HttpErrorAt(pager.args.fault, pager.request_no)
    \/ pager.pos + Min(PageLimit, pager.args.max_results - Len(pager.videos))
          > Len(playlist)

\* C30: the paging loop of a collect over a playlist terminates: a pass
\* that does not end the loop moves on to a later page of the playlist, the
\* loop ends only when max_results videos are kept, when no page is left or
\* at the first failed request, it ends with the videos collect returns, and
\* every loop that has started does end.
PagingTerminates ==
    /\ [][(pager.pc = "paging" /\ pager'.pc = "paging")
             => (pager'.pos > pager.pos /\ pager'.pos <= Len(playlist))]_vars
    /\ [][(pager.pc = "paging" /\ pager'.pc = "done") => LoopEnded]_vars
    /\ [](pager.pc = "done"
             => pager.videos = PageLoop(playlist, 1, <<>>, 1, pager.args.max_results,
                                        pager.args.published_after, pager.args.fault))
    /\ (pager.pc = "paging") ~> (pager.pc = "done")

\* a loop that has ended after more than one request, the playlist read to
\* its end
PagingTerminatesWitness ==
    /\ pager.pc = "done"
    /\ pager.request_no >= 2
    /\ pager.args.fault = "none"
    /\ Len(pager.videos) < pager.args.max_results

=============================================================================
